---- MODULE Spec2Model ----
(***************************************************************************)
(* Calculator MCP server (calculator_server.py): nine arithmetic tools     *)
(* registered with a FastMCP instance at import time and then invoked one  *)
(* at a time.  Arguments and results are Python floats; they are modelled  *)
(* by a binary floating-point format of the same structure as IEEE-754     *)
(* double (subnormals, round-to-nearest-even, +/-inf, NaN) with a short    *)
(* significand and a narrow exponent range, so that rounding, overflow and *)
(* underflow all happen inside the checked domain.                         *)
(***************************************************************************)
EXTENDS Integers, Naturals, Sequences, FiniteSets, TLC

VARIABLES registry, op, args, res, memo

vars == <<registry, op, args, res, memo>>

(***************************************************************************)
(* The floating-point format.  A finite float is an integer count n of     *)
(* quanta; the quantum is 2^-FBits, so the real value is n / One.          *)
(* n is representable when it has at most PBits significant bits and is    *)
(* at most MaxFin.  -0.0 and 0.0 compare equal in every test the program   *)
(* makes and are one value here.                                           *)
(***************************************************************************)
PBits == 3

FBits == 2 * PBits

KMax == FBits + 1

RECURSIVE Pow2(_)
Pow2(k) == IF k = 0 THEN 1 ELSE 2 * Pow2(k - 1)

Mant == Pow2(PBits)

One == Pow2(FBits)

MaxFin == (Mant - 1) * Pow2(KMax)

NaN == [k |-> "nan", n |-> 0]

Inf(s) == [k |-> "inf", n |-> s]

Fin(n) == [k |-> "fin", n |-> n]

NoVal == [k |-> "none", n |-> 0]

Abs(i) == IF i < 0 THEN -i ELSE i

Sgn(i) == IF i < 0 THEN -1 ELSE IF i > 0 THEN 1 ELSE 0

RECURSIVE Shift(_)
Shift(q) == IF q < Mant THEN 0 ELSE 1 + Shift(q \div 2)

\* The unit in the last place of a magnitude of q quanta: the quantum for
\* the subnormal and the smallest normal floats.
Ulp(q) == Pow2(Shift(q))

\* a / den (a >= 0, den > 0) rounded to the nearest value with PBits
\* significant bits, ties to even; the exponent is not yet limited.
RoundNat(a, den) ==
  LET k == Shift(a \div den)
      d == den * Pow2(k)
      m == a \div d
      r == a - m * d
      up == (2 * r > d) \/ (2 * r = d /\ m % 2 = 1)
  IN  (IF up THEN m + 1 ELSE m) * Pow2(k)

\* num / den quanta (den > 0) as a float: overflow gives an infinity.
RoundRat(num, den) ==
  LET n == RoundNat(Abs(num), den)
  IN  IF n > MaxFin THEN Inf(Sgn(num)) ELSE Fin(Sgn(num) * n)

Rep == {n \in 0..MaxFin : RoundNat(n, 1) = n}

Finite == {Fin(n) : n \in Rep} \cup {Fin(-n) : n \in Rep}

Floats == Finite \cup {Inf(1), Inf(-1), NaN}

IsNaN(x) == x.k = "nan"

IsFinite(x) == x.k = "fin"

\* Python's x == 0, x < 0, x > 0 on floats (all false for NaN).
IsZero(x) == x.k = "fin" /\ x.n = 0

IsNeg(x) == (x.k = "fin" /\ x.n < 0) \/ (x.k = "inf" /\ x.n < 0)

IsPos(x) == (x.k = "fin" /\ x.n > 0) \/ (x.k = "inf" /\ x.n > 0)

SignOf(x) == IF IsNeg(x) THEN -1 ELSE IF IsPos(x) THEN 1 ELSE 0

Neg(x) == [k |-> x.k, n |-> -x.n]

\* float.__add__, float.__sub__, float.__mul__, float.__truediv__ (divisor
\* nonzero), as the C double operations.
FAdd(x, y) ==
  IF IsNaN(x) \/ IsNaN(y) THEN NaN
  ELSE IF x.k = "inf" /\ y.k = "inf" THEN (IF x.n = y.n THEN x ELSE NaN)
  ELSE IF x.k = "inf" THEN x
  ELSE IF y.k = "inf" THEN y
  ELSE RoundRat(x.n + y.n, 1)

FSub(x, y) == FAdd(x, Neg(y))

FMul(x, y) ==
  IF IsNaN(x) \/ IsNaN(y) THEN NaN
  ELSE IF x.k = "inf" \/ y.k = "inf"
       THEN (IF IsZero(x) \/ IsZero(y) THEN NaN ELSE Inf(SignOf(x) * SignOf(y)))
  ELSE RoundRat(x.n * y.n, One)

FDiv(x, y) ==
  IF IsNaN(x) \/ IsNaN(y) THEN NaN
  ELSE IF x.k = "inf" THEN (IF y.k = "inf" THEN NaN ELSE Inf(x.n * (IF IsNeg(y) THEN -1 ELSE 1)))
  ELSE IF y.k = "inf" THEN Fin(0)
  ELSE RoundRat(x.n * One * Sgn(y.n), Abs(y.n))

\* The outcome of a call: a returned float, or a raised exception.
Ok(v) == [exc |-> "", msg |-> "", val |-> v]

Raise(e, m) == [exc |-> e, msg |-> m, val |-> NoVal]

Failed(o) == o.exc # ""

\* A faulty variant: the difference where the sum is meant.
add_minus(a, b) == Ok(FSub(a, b))

add(a, b) == Ok(FAdd(a, b))

subtract(a, b) == Ok(FSub(a, b))

\* A faulty variant: the sum where the product is meant.
multiply_plus(a, b) == Ok(FAdd(a, b))

multiply(a, b) == Ok(FMul(a, b))

\* A faulty variant: no test of the divisor, so Python's own error.
divide_unchecked(a, b) ==
  IF IsZero(b) THEN Raise("ZeroDivisionError", "float division by zero")
  ELSE Ok(FDiv(a, b))

divide(a, b) ==
  IF IsZero(b) THEN Raise("ValueError", "Cannot divide by zero")
  ELSE Ok(FDiv(a, b))

\* The next representable magnitude after c.
Succ(c) == c + Ulp(c)

\* sqrt(num / den) quanta (num >= 0, den > 0) rounded to nearest, ties to even.
RoundRoot(num, den) ==
  LET q == num \div den
      lo == CHOOSE c \in Rep : c * c <= q /\ Succ(c) * Succ(c) > q
      hi == Succ(lo)
      s == (lo + hi) * (lo + hi)
      q4 == (4 * num) \div den
      exact == (4 * num) % den = 0
      above == q4 > s \/ (q4 = s /\ ~exact)
      tie == q4 = s /\ exact
      odd == (lo \div Pow2(Shift(lo))) % 2 = 1
  IN  Fin(IF above \/ (tie /\ odd) THEN hi ELSE lo)

\* C fmod(x, y) for y # 0: exact, with the sign of x.
Fmod(x, y) ==
  IF IsNaN(x) \/ IsNaN(y) \/ x.k = "inf" THEN NaN
  ELSE IF y.k = "inf" THEN x
  ELSE Fin(Sgn(x.n) * (Abs(x.n) % Abs(y.n)))

\* A faulty variant: the remainder of C fmod, without the adjustment to the divisor.
FRem_truncated(x, y) == Fmod(x, y)

\* float.__mod__ (float_rem) for a nonzero divisor: fmod, then one
\* addition of the divisor when the signs of remainder and divisor differ.
FRem(x, y) ==
  LET mod == Fmod(x, y)
  IN  IF IsZero(mod) THEN Fin(0)
      ELSE IF IsNeg(y) # IsNeg(mod) THEN FAdd(mod, y)
      ELSE mod

\* m * 2^e quanta (m >= 0) as a float, without forming huge intermediates.
Scaled(m, e) ==
  IF m = 0 THEN Fin(0)
  ELSE IF e >= 0
       THEN (IF e > KMax + PBits THEN Inf(1) ELSE RoundRat(m * Pow2(e), 1))
  ELSE IF -e > 3 * PBits + 2 THEN Fin(0)
  ELSE RoundRat(m, Pow2(-e))

\* The exponents for which x^y is evaluated exactly: -2, -1, -1/2, 0, 1/2,
\* 1, 2, 3 and the non-finite ones.
PowExponents ==
  {Fin(-2 * One), Fin(-One), Fin(-(One \div 2)), Fin(0), Fin(One \div 2),
   Fin(One), Fin(2 * One), Fin(3 * One), Inf(1), Inf(-1), NaN}

\* C pow(x, y) for finite x > 0 (xn quanta) and finite y # 0 in
\* PowExponents (yn quanta): the exact power, rounded once.
PowMag(xn, yn) ==
  LET k == Shift(xn)
      m == xn \div Pow2(k)
  IN  CASE yn = One -> Fin(xn)
        [] yn = 2 * One -> RoundRat(xn * xn, One)
        [] yn = 3 * One -> Scaled(m * m * m, 3 * k - 2 * FBits)
        [] yn = -One -> RoundRat(One * One, xn)
        [] yn = -2 * One -> RoundRat(One * One * One, xn * xn)
        [] yn = One \div 2 -> RoundRoot(xn * One, 1)
        [] yn = -(One \div 2) -> RoundRoot(One * One * One, xn)

\* math.pow for a non-finite argument (math_pow_impl): never raises.
PowSpecial(x, y) ==
  LET oddY == IsFinite(y) /\ Abs(y.n) % (2 * One) = One
  IN  IF IsNaN(x) THEN (IF IsZero(y) THEN Fin(One) ELSE NaN)
      ELSE IF IsNaN(y) THEN (IF x = Fin(One) THEN Fin(One) ELSE NaN)
      ELSE IF x.k = "inf"
           THEN (IF IsPos(y) THEN (IF oddY THEN x ELSE Inf(1))
                 ELSE IF IsZero(y) THEN Fin(One)
                 ELSE Fin(0))
      ELSE IF Abs(x.n) = One THEN Fin(One)
      ELSE IF IsPos(y) /\ Abs(x.n) > One THEN Inf(1)
      ELSE IF IsNeg(y) /\ Abs(x.n) < One THEN Inf(1)
      ELSE Fin(0)

\* math.pow for finite arguments: C pow, with a NaN result or a pole
\* turned into ValueError and an overflow into OverflowError.
PowFinite(x, y) ==
  IF IsZero(y) THEN Ok(Fin(One))
  ELSE IF IsZero(x)
       THEN (IF IsPos(y) THEN Ok(Fin(0)) ELSE Raise("ValueError", "math domain error"))
  ELSE IF IsNeg(x) /\ y.n % One # 0 THEN Raise("ValueError", "math domain error")
  ELSE LET mag == PowMag(Abs(x.n), y.n)
           odd == Abs(y.n) % (2 * One) = One
       IN  IF mag.k = "inf" THEN Raise("OverflowError", "math range error")
           ELSE Ok(IF IsNeg(x) /\ odd THEN Neg(mag) ELSE mag)

power(base, exponent) ==
  IF IsFinite(base) /\ IsFinite(exponent) THEN PowFinite(base, exponent)
  ELSE Ok(PowSpecial(base, exponent))

modulo(a, b) ==
  IF IsZero(b) THEN Raise("ValueError", "Cannot perform modulo with zero divisor")
  ELSE Ok(FRem(a, b))

\* math.sqrt for an argument that is not below zero.
FSqrt(x) == IF IsFinite(x) THEN RoundRoot(x.n * One, 1) ELSE x

\* A faulty variant: zero rejected together with the negative numbers.
square_root_strict(number) ==
  IF IsNeg(number) \/ IsZero(number)
  THEN Raise("ValueError", "Cannot calculate square root of a negative number")
  ELSE Ok(FSqrt(number))

square_root(number) ==
  IF IsNeg(number)
  THEN Raise("ValueError", "Cannot calculate square root of a negative number")
  ELSE Ok(FSqrt(number))

\* A faulty variant: the argument returned as it is.
absolute_identity(number) == Ok(number)

absolute(number) == Ok([k |-> number.k, n |-> Abs(number.n)])

\* (value * percent) / 100: the divisor is the exact integer 100.
percentage(value, percent) ==
  LET p == FMul(value, percent)
  IN  Ok(IF IsFinite(p) THEN RoundRat(p.n, 100) ELSE p)

(***************************************************************************)
(* The program.  Importing the module runs the nine @mcp.tool() decorators *)
(* in source order; afterwards the tools are called one at a time.         *)
(***************************************************************************)
\* A faulty variant: the last function lacks its decorator.
ToolDefs_short ==
  << [name |-> "add", params |-> <<"a", "b">>],
     [name |-> "subtract", params |-> <<"a", "b">>],
     [name |-> "multiply", params |-> <<"a", "b">>],
     [name |-> "divide", params |-> <<"a", "b">>],
     [name |-> "power", params |-> <<"base", "exponent">>],
     [name |-> "modulo", params |-> <<"a", "b">>],
     [name |-> "square_root", params |-> <<"number">>],
     [name |-> "absolute", params |-> <<"number">>] >>

ToolDefs ==
  << [name |-> "add", params |-> <<"a", "b">>],
     [name |-> "subtract", params |-> <<"a", "b">>],
     [name |-> "multiply", params |-> <<"a", "b">>],
     [name |-> "divide", params |-> <<"a", "b">>],
     [name |-> "power", params |-> <<"base", "exponent">>],
     [name |-> "modulo", params |-> <<"a", "b">>],
     [name |-> "square_root", params |-> <<"number">>],
     [name |-> "absolute", params |-> <<"number">>],
     [name |-> "percentage", params |-> <<"value", "percent">>] >>

NoMemo == [op |-> "", args |-> <<>>, res |-> Ok(NoVal), failed |-> FALSE]

Init ==
  /\ registry = <<>>
  /\ op = ""
  /\ args = <<>>
  /\ res = Ok(NoVal)
  /\ memo = NoMemo

Imported == Len(registry) = Len(ToolDefs)

\* One @mcp.tool() decorator: the next function of the file is registered.
Register ==
  /\ ~Imported
  /\ registry' = Append(registry, ToolDefs[Len(registry) + 1])
  /\ UNCHANGED <<op, args, res, memo>>

Registered(name) == \E i \in 1..Len(registry) : registry[i].name = name

Idle == op = ""

\* The module is imported and no call is in progress: calls are served
\* one at a time.
Ready == Imported /\ Idle

\* A tool function is called and returns or raises: the request and its
\* outcome are in flight until the serve loop has answered.
Return(name, as, o) ==
  /\ Registered(name)
  /\ op' = name
  /\ args' = as
  /\ res' = o
  /\ UNCHANGED <<registry, memo>>

Call_add(S) ==
  Ready /\ \E a, b \in S : Return("add", <<a, b>>, add(a, b))

Call_subtract(S) ==
  Ready /\ \E a, b \in S : Return("subtract", <<a, b>>, subtract(a, b))

Call_multiply(S) ==
  Ready /\ \E a, b \in S : Return("multiply", <<a, b>>, multiply(a, b))

Call_divide(S) ==
  Ready /\ \E a, b \in S : Return("divide", <<a, b>>, divide(a, b))

Call_power(S) ==
  Ready /\ \E base \in S, exponent \in S \cap PowExponents :
             Return("power", <<base, exponent>>, power(base, exponent))

Call_modulo(S) ==
  Ready /\ \E a, b \in S : Return("modulo", <<a, b>>, modulo(a, b))

Call_square_root(S) ==
  Ready /\ \E number \in S :
             Return("square_root", <<number>>, square_root(number))

Call_absolute(S) ==
  Ready /\ \E number \in S : Return("absolute", <<number>>, absolute(number))

Call_percentage(S) ==
  Ready /\ \E value, percent \in S :
             Return("percentage", <<value, percent>>, percentage(value, percent))

\* The serve loop hands the outcome to the caller and waits for the next
\* request; request and result are discarded.
\* A faulty variant: a raised exception takes the registry down with it.
Answer_fatal ==
  /\ ~Idle
  /\ op' = ""
  /\ args' = <<>>
  /\ res' = Ok(NoVal)
  /\ registry' = IF Failed(res) THEN <<>> ELSE registry

Answer ==
  /\ ~Idle
  /\ op' = ""
  /\ args' = <<>>
  /\ res' = Ok(NoVal)
  /\ UNCHANGED registry

Respond == Answer /\ UNCHANGED memo

Next ==
  \/ Register
  \/ Call_add(Floats)
  \/ Call_subtract(Floats)
  \/ Call_multiply(Floats)
  \/ Call_divide(Floats)
  \/ Call_power(Floats)
  \/ Call_modulo(Floats)
  \/ Call_square_root(Floats)
  \/ Call_absolute(Floats)
  \/ Call_percentage(Floats)
  \/ Respond

Spec == Init /\ [][Next]_vars

(***************************************************************************)
(* The same program with a history variable: memo keeps the request and    *)
(* outcome of one earlier call, and whether a call has failed since.       *)
(***************************************************************************)
ProbeFloats == {Fin(0), Fin(One), Fin(-One), Fin(3 * One), Inf(1), NaN}

RespondRecord ==
  /\ Answer
  /\ memo' \in
       IF memo = NoMemo
       THEN {NoMemo, [op |-> op, args |-> args, res |-> res, failed |-> FALSE]}
       ELSE {[memo EXCEPT !.failed = @ \/ Failed(res)]}

NextHist ==
  \/ Register
  \/ Call_add(ProbeFloats)
  \/ Call_subtract(ProbeFloats)
  \/ Call_multiply(ProbeFloats)
  \/ Call_divide(ProbeFloats)
  \/ Call_power(ProbeFloats)
  \/ Call_modulo(ProbeFloats)
  \/ Call_square_root(ProbeFloats)
  \/ Call_absolute(ProbeFloats)
  \/ Call_percentage(ProbeFloats)
  \/ RespondRecord

SpecHist == Init /\ [][NextHist]_vars

(***************************************************************************)
(* Vocabulary of the properties.                                           *)
(***************************************************************************)
\* Python's == and >= 0 on floats: false whenever a NaN is involved.
FEq(x, y) == ~IsNaN(x) /\ ~IsNaN(y) /\ x = y

FGe0(x) == IsZero(x) \/ IsPos(x)

\* u and v are finite and differ by at most two units in the last place
\* of scale, a magnitude in quanta.
Near(u, v, scale) ==
  /\ IsFinite(u)
  /\ IsFinite(v)
  /\ Abs(u.n - v.n) <= 2 * Ulp(scale)

Max(i, j) == IF i >= j THEN i ELSE j

\* Equal as Python floats, or within tolerance of each other.
Approx(u, v) == FEq(u, v) \/ Near(u, v, Max(Abs(u.n), Abs(v.n)))

Finite2 == op # "" /\ Len(args) = 2 /\ IsFinite(args[1]) /\ IsFinite(args[2])

\* x is an integer that the significand holds exactly (below 2^53 for a
\* double).
SmallInteger(x) == IsFinite(x) /\ x.n % One = 0 /\ Abs(x.n) < Mant * One

\* The exact remainder of a by b (quanta, b # 0) under floored division:
\* zero or of the sign of b.
FlooredRem(a, b) == IF b > 0 THEN a % b ELSE -((-a) % (-b))

(***************************************************************************)
(* C3: divide(a, 0) and modulo(a, 0) raise, for every a (NaN and the       *)
(* infinities included), the fixed message of the operation and return no  *)
(* value.                                                                  *)
(***************************************************************************)
C3_ZeroDivisorFails ==
  /\ (op = "divide" /\ IsZero(args[2]))
       => res = Raise("ValueError", "Cannot divide by zero")
  /\ (op = "modulo" /\ IsZero(args[2]))
       => res = Raise("ValueError", "Cannot perform modulo with zero divisor")

C3_Witness ==
  /\ op = "modulo"
  /\ IsZero(args[2])
  /\ args[1] = Inf(-1)
  /\ Failed(res)
  /\ res.val = NoVal

(***************************************************************************)
(* C4: square_root raises for every x < 0 and for no x >= 0; for x >= 0    *)
(* the result r is >= 0, r * r is x within tolerance, and r * r is exactly *)
(* x when x is the square of a float (square_root(0) = 0).                 *)
(***************************************************************************)
C4_SquareRoot ==
  op = "square_root" =>
    LET x == args[1]
        r == res.val
    IN  /\ IsNeg(x) =>
             res = Raise("ValueError",
                         "Cannot calculate square root of a negative number")
        /\ FGe0(x) =>
             /\ ~Failed(res)
             /\ FGe0(r)
             /\ Approx(FMul(r, r), x)
             /\ IsZero(x) => IsZero(r)
             /\ \A c \in Rep : (IsFinite(x) /\ c * c = x.n * One) => r = Fin(c)

C4_Witness ==
  /\ op = "square_root"
  /\ IsPos(args[1])
  /\ IsFinite(args[1])
  /\ ~Failed(res)
  /\ FMul(res.val, res.val) # args[1]

(***************************************************************************)
(* C10 as stated: for every x, absolute(x) >= 0, absolute(x) ==            *)
(* absolute(-x), absolute(x) is x when x >= 0 and -x otherwise, and        *)
(* absolute does not fail.                                                 *)
(***************************************************************************)
C10_AbsoluteBody(x) ==
  /\ ~Failed(res)
  /\ FGe0(res.val)
  /\ FEq(res.val, absolute(Neg(x)).val)
  /\ FEq(res.val, IF FGe0(x) THEN x ELSE Neg(x))

C10_Original == op = "absolute" => C10_AbsoluteBody(args[1])

(***************************************************************************)
(* C10 amended: the same for every x other than NaN, the infinities        *)
(* included; absolute(NaN) is NaN, and absolute never fails.               *)
(***************************************************************************)
C10_Absolute ==
  op = "absolute" =>
    /\ ~Failed(res)
    /\ IsNaN(args[1]) => IsNaN(res.val)
    /\ ~IsNaN(args[1]) => C10_AbsoluteBody(args[1])

C10_Witness ==
  /\ op = "absolute"
  /\ args[1] = Fin(-5 * One)
  /\ res = Ok(Fin(5 * One))

(***************************************************************************)
(* C2 as stated, at the cases it names: power returns a number and does    *)
(* not fail for base 0 with a negative exponent and for a negative base    *)
(* with a fractional exponent.                                             *)
(***************************************************************************)
C2_PowerNeverFails ==
  (/\ op = "power"
   /\ Finite2
   /\ \/ IsZero(args[1]) /\ IsNeg(args[2])
      \/ IsNeg(args[1]) /\ args[2].n % One # 0)
    => (~Failed(res) /\ res.val.k \in {"fin", "inf", "nan"})

(***************************************************************************)
(* C9 as stated: for finite a and b, add(a, b) == add(b, a),               *)
(* subtract(add(a, b), b) is a within tolerance, and add does not fail.    *)
(***************************************************************************)
C9_Original ==
  (op = "add" /\ Finite2) =>
    /\ ~Failed(res)
    /\ FEq(res.val, add(args[2], args[1]).val)
    /\ Approx(subtract(res.val, args[2]).val, args[1])

(***************************************************************************)
(* C9 amended: for finite a and b, add does not fail and add(a, b) ==      *)
(* add(b, a); when neither add(a, b) nor the subtraction overflows to an   *)
(* infinity, subtract(add(a, b), b) is a within a tolerance relative to    *)
(* the larger of |a| and |b|, and it is exactly a when a + b is            *)
(* representable.                                                          *)
(***************************************************************************)
C9_AddSubtract ==
  (op = "add" /\ Finite2) =>
    LET a == args[1]
        b == args[2]
        back == subtract(res.val, b)
    IN  /\ ~Failed(res)
        /\ FEq(res.val, add(b, a).val)
        /\ ~Failed(back)
        /\ (IsFinite(res.val) /\ IsFinite(back.val)) =>
             Near(back.val, a, Max(Abs(a.n), Abs(b.n)))
        /\ res.val = Fin(a.n + b.n) => back.val = a

C9_Witness ==
  /\ op = "add"
  /\ Finite2
  /\ IsFinite(res.val)
  /\ res.val.n # args[1].n + args[2].n
  /\ subtract(res.val, args[2]).val # args[1]

(***************************************************************************)
(* C8 as stated: for finite a and b with b # 0, divide(multiply(a, b), b)  *)
(* does not fail and is a within tolerance.                                *)
(***************************************************************************)
C8_Original ==
  (op = "multiply" /\ Finite2 /\ ~IsZero(args[2])) =>
    LET back == divide(res.val, args[2])
    IN  /\ ~Failed(res)
        /\ ~Failed(back)
        /\ Approx(back.val, args[1])

\* The product of nonzero a and b came out below the smallest normal float.
Underflowed(p) == IsFinite(p) /\ Abs(p.n) < Mant \div 2

(***************************************************************************)
(* C8 amended: for finite a and b with b # 0, divide(multiply(a, b), b)    *)
(* does not fail; it is a within tolerance when multiply(a, b) neither     *)
(* overflows to an infinity nor underflows below the smallest normal       *)
(* float, and always when a is 0.                                          *)
(***************************************************************************)
C8_MultiplyDivide ==
  (op = "multiply" /\ Finite2 /\ ~IsZero(args[2])) =>
    LET a == args[1]
        back == divide(res.val, args[2])
    IN  /\ ~Failed(res)
        /\ ~Failed(back)
        /\ (IsZero(a) \/ (IsFinite(res.val) /\ ~Underflowed(res.val)))
             => Approx(back.val, a)

C8_Witness ==
  /\ op = "multiply"
  /\ Finite2
  /\ ~IsZero(args[2])
  /\ IsFinite(res.val)
  /\ ~Underflowed(res.val)
  /\ res.val.n * One # args[1].n * args[2].n
  /\ divide(res.val, args[2]).val # args[1]

(***************************************************************************)
(* C1 as stated, on finite a and b: for b # 0, modulo(a, b) is the         *)
(* remainder r with the sign of the dividend: |r| < |b|, a - r a whole     *)
(* multiple of b, r zero or of the sign of a.                              *)
(***************************************************************************)
C1_Original ==
  (op = "modulo" /\ Finite2 /\ ~IsZero(args[2])) =>
    LET a == args[1]
        b == args[2]
        r == res.val
    IN  /\ ~Failed(res)
        /\ IsFinite(r)
        /\ IsZero(r) \/ SignOf(r) = SignOf(a)
        /\ Abs(r.n) < Abs(b.n)
        /\ (a.n - r.n) % Abs(b.n) = 0

(***************************************************************************)
(* C1 amended: for finite a and finite b # 0, modulo(a, b) does not fail   *)
(* and is the remainder r with the sign of the divisor: r is zero or of    *)
(* the sign of b and |r| <= |b|; when the exact floored remainder          *)
(* a - b * floor(a / b) is a float, as it is for integers a and b below    *)
(* 2^PBits in magnitude, r is that remainder, so |r| < |b| and a - r is a  *)
(* whole multiple of b.                                                    *)
(***************************************************************************)
C1_Modulo ==
  (op = "modulo" /\ Finite2 /\ ~IsZero(args[2])) =>
    LET a == args[1]
        b == args[2]
        r == res.val
        e == FlooredRem(a.n, b.n)
    IN  /\ ~Failed(res)
        /\ IsFinite(r)
        /\ IsZero(r) \/ SignOf(r) = SignOf(b)
        /\ Abs(r.n) <= Abs(b.n)
        /\ Fin(e) \in Finite =>
             /\ r = Fin(e)
             /\ Abs(r.n) < Abs(b.n)
             /\ (a.n - r.n) % Abs(b.n) = 0
        /\ (SmallInteger(a) /\ SmallInteger(b)) => Fin(e) \in Finite

C1_Witness ==
  /\ op = "modulo"
  /\ args = <<Fin(-7 * One), Fin(3 * One)>>
  /\ res = Ok(Fin(2 * One))

(***************************************************************************)
(* C7: once the import has run, the registry holds exactly the nine tools  *)
(* add, subtract, multiply, divide, power, modulo, square_root, absolute,  *)
(* percentage, each name once, with their parameters, and no call or       *)
(* answer changes it.                                                      *)
(***************************************************************************)
NineNames ==
  <<"add", "subtract", "multiply", "divide", "power", "modulo",
    "square_root", "absolute", "percentage">>

NineArities == <<2, 2, 2, 2, 2, 2, 1, 1, 2>>

RegistryComplete ==
  /\ Len(registry) = 9
  /\ \A i \in 1..9 :
       /\ registry[i].name = NineNames[i]
       /\ Len(registry[i].params) = NineArities[i]
  /\ \A i, j \in 1..9 : registry[i].name = registry[j].name => i = j

C7_RegistryFixed ==
  /\ [](Imported => RegistryComplete)
  /\ [](op # "" => RegistryComplete)
  /\ [][Imported => registry' = registry]_vars
  /\ [][Len(registry') >= Len(registry)]_vars

C7_Witness ==
  /\ RegistryComplete
  /\ op = "divide"
  /\ Failed(res)

====
